---- MODULE Spec2Model ----
(***************************************************************************)
(* One SOCKS5 session: Connection::handle of src/src/lib.rs.               *)
(*                                                                         *)
(* The client is the environment.  Every read the server performs         *)
(* (read_u8, read_u16, read_exact) is one step that either obtains bytes   *)
(* chosen by the client or meets end-of-stream.  Every write the server   *)
(* performs is a step of its own, apart from the read that led to it, and  *)
(* appends to `out` one frame tagged with the stage that wrote it; writes  *)
(* to the client are taken to succeed.  The outbound connect either        *)
(* succeeds or fails.                                                      *)
(***************************************************************************)
EXTENDS Naturals, Integers, Sequences, FiniteSets, TLC

(* ---------------------------------------------------------------------- *)
(* Bounds of the model                                                    *)
(* ---------------------------------------------------------------------- *)

\* longest variable-length field (method list, username, password, domain)
MaxLen == 3
\* most bytes relayed in one direction
MaxRelay == 2

(* ---------------------------------------------------------------------- *)
(* Wire constants (the enums of lib.rs)                                   *)
(* ---------------------------------------------------------------------- *)

MethodNoauth == 0
MethodPasswd == 2
MethodError == 255

AuthMethodPasswd == 1

CommandConnect == 1
CommandUnsupported == 4

RepSucceeded == 0
RepRuleSetNotAllowed == 2
RepConnectionRefused == 5
RepCommandUnsupported == 7
RepAddrTypeUnsupported == 8

AddrTypeV4 == 1
AddrTypeDomain == 3
AddrTypeV6 == 4
AddrTypeUnsupported == 5

\* Connection::new sets version to 5
Version == 5

\* the hardwired credential of auth_passwd: vec![49, 50, 51]
Simple == <<49, 50, 51>>

(* ---------------------------------------------------------------------- *)
(* Bytes the client may send, per position of the protocol                *)
(* ---------------------------------------------------------------------- *)

\* every value of a byte, where the session branches on the byte alone
GreetingVersionBytes == 0..255
CommandBytes == 0..255
AddrTypeBytes == 0..255
\* samples, where the byte rides along with others
VersionBytes == {0, 4, 5, 255}
MethodBytes == {0, 1, 2, 255}
AverBytes == {0, 1, 5}
CredBytes == {49, 50, 51}
ReservedBytes == {0, 1}
DomainBytes == {49, 97}
V4Addrs == { <<127, 0, 0, 1>>, <<192, 0, 2, 1>> }
V6Addrs == { <<0, 0, 0, 0, 0, 0, 0, 0, 0, 0, 0, 0, 0, 0, 0, 1>>,
             <<32, 1, 13, 184, 0, 0, 0, 0, 0, 0, 0, 0, 0, 0, 0, 1>> }
PortBytes == { <<0, 80>>, <<31, 144>> }

SeqsOfLen(S, n) == [1..n -> S]

Range(s) == { s[i] : i \in 1..Len(s) }

(* ---------------------------------------------------------------------- *)
(* Pure helpers                                                           *)
(* ---------------------------------------------------------------------- *)

\* fn to_u16(a, b) = ((a as u16) << 8) + b as u16
to_u16(a, b) == ((a * 256) + b) % 65536

\* write_u16 puts the value on the wire big-endian
WriteU16(v) == << v \div 256, v % 256 >>

\* read_u16 takes two bytes from the wire big-endian
ReadU16(bs) == (bs[1] * 256) + bs[2]

\* `!rep as u8`: the negation binds tighter than the cast
NotAsU8(rep) == IF rep THEN 0 ELSE 1

\* mutant: From<u8> for Command lets BIND (2) through as Connect
CommandFrom_BindToo(c) == IF c \in {1, 2} THEN CommandConnect ELSE CommandUnsupported

\* impl From<u8> for Command
CommandFrom(c) == IF c = 1 THEN CommandConnect ELSE CommandUnsupported

\* mutant: From<u8> for AddrType takes 5 (the discriminant of Unsupported)
\* and 0 for V6
AddrTypeFrom_Loose(t) ==
  CASE t = 1 -> AddrTypeV4
    [] t = 3 -> AddrTypeDomain
    [] t \in {0, 4, 5} -> AddrTypeV6
    [] OTHER -> AddrTypeUnsupported

\* impl From<u8> for AddrType
AddrTypeFrom(t) ==
  CASE t = 1 -> AddrTypeV4
    [] t = 3 -> AddrTypeDomain
    [] t = 4 -> AddrTypeV6
    [] OTHER -> AddrTypeUnsupported

\* mutant: the two `contains` tests of negotiate_method in the other order
SelectMethod_NoauthFirst(list) ==
  IF MethodNoauth \in Range(list) THEN MethodNoauth
  ELSE IF MethodPasswd \in Range(list) THEN MethodPasswd
  ELSE MethodError

\* the selection of negotiate_method once the list is read
SelectMethod(list) ==
  IF MethodPasswd \in Range(list) THEN MethodPasswd
  ELSE IF MethodNoauth \in Range(list) THEN MethodNoauth
  ELSE MethodError

\* the bytes reply_method writes
ReplyMethodBytes(m) == WriteU16(to_u16(Version, m))

\* the bytes reply_auth writes
ReplyAuthBytes(am, rep) == WriteU16(to_u16(am, NotAsU8(rep)))

\* mutant: reply_command without the reserved byte
ReplyCommandBytes_NoReserved(rep) == << Version, rep, AddrTypeV4, 0, 0, 0, 0, 0, 0 >>

\* the bytes reply_command writes
ReplyCommandBytes(rep) == << Version, rep, 0, AddrTypeV4, 0, 0, 0, 0, 0, 0 >>

\* mutant: auth_passwd rejects only when both fields differ
CredentialsMatch_Either(u, p) == ~ (u # Simple /\ p # Simple)

\* mutant: auth_passwd compares the username only
CredentialsMatch_UserOnly(u, p) == ~ (u # Simple)

\* the comparison of auth_passwd
CredentialsMatch(u, p) == ~ (u # Simple \/ p # Simple)


(* ---------------------------------------------------------------------- *)
(* The Domain arm of read_addr:                                           *)
(*   SocketAddr::from_str(&format!("{:?}:{}", domain.as_slice(), port))   *)
(* The text is built character by character and then parsed.              *)
(* ---------------------------------------------------------------------- *)

DigitChars == <<"0", "1", "2", "3", "4", "5", "6", "7", "8", "9">>

RECURSIVE Decimal(_)
\* the decimal text of a number, as `{}` prints an unsigned integer
Decimal(n) ==
  IF n < 10 THEN << DigitChars[n + 1] >>
  ELSE Decimal(n \div 10) \o << DigitChars[(n % 10) + 1] >>

RECURSIVE DebugItems(_)
\* the items of a slice as `{:?}` prints them: decimal, separated by ", "
DebugItems(bs) ==
  IF Len(bs) = 0 THEN << >>
  ELSE IF Len(bs) = 1 THEN Decimal(bs[1])
  ELSE Decimal(bs[1]) \o << ",", " " >> \o DebugItems(Tail(bs))

\* format!("{:?}:{}", domain.as_slice(), port)
DomainText(bs, p) == << "[" >> \o DebugItems(bs) \o << "]", ":" >> \o Decimal(p)

HexChars == { DigitChars[i] : i \in 1..10 } \cup
            { "a", "b", "c", "d", "e", "f", "A", "B", "C", "D", "E", "F" }

\* position of the first "]" of a text, 0 when there is none
FirstClose(t) ==
  IF \E i \in 1..Len(t) : t[i] = "]"
  THEN CHOOSE i \in 1..Len(t) : t[i] = "]" /\ \A j \in 1..(i - 1) : t[j] # "]"
  ELSE 0

\* SocketAddr::from_str accepts "a.b.c.d:port" (which starts with a digit)
\* or "[v6]:port", where v6 is made of hex digits, ":" and "." and holds at
\* least two ":".  What it needs of the text is modelled; whatever fails
\* this fails the parse.
ParsesAsSocketAddr(t) ==
  \/ /\ Len(t) > 0
     /\ t[1] \in { DigitChars[i] : i \in 1..10 }
     /\ Cardinality({ i \in 1..Len(t) : t[i] = "." }) = 3
     /\ Cardinality({ i \in 1..Len(t) : t[i] = ":" }) = 1
     /\ \A i \in 1..Len(t) : t[i] \in { DigitChars[j] : j \in 1..10 } \cup { ".", ":" }
  \/ /\ Len(t) > 0
     /\ t[1] = "["
     /\ FirstClose(t) > 2
     /\ \A i \in 2..(FirstClose(t) - 1) : t[i] \in HexChars \cup { ":", "." }
     /\ Cardinality({ i \in 2..(FirstClose(t) - 1) : t[i] = ":" }) >= 2

(* ---------------------------------------------------------------------- *)
(* State                                                                  *)
(* ---------------------------------------------------------------------- *)

VARIABLES
  pc,        \* where handle() stands
  result,    \* "running", then what handle() returned: "Ok" or the error
  out,       \* the frames written to the client, in order
  nread,     \* number of handshake bytes taken from the client
  len,       \* the last length byte read; what a pending read_exact waits for
  ver,       \* << >> or <<b>>: the version byte of the greeting
  methods,   \* the method list of the greeting (kept until auth() starts)
  method,    \* << >> or <<m>>: the method negotiate_method returned
  aver,      \* << >> or <<b>>: the auth-version byte the client sent
  username,  \* the username field read by auth_passwd
  password,  \* the password field read by auth_passwd
  cmd,       \* << >> or the 3 bytes of the command frame
  atyp,      \* << >> or <<t>>: the address-type byte
  addr,      \* the address bytes (V4, V6)
  domain,    \* the domain bytes
  port,      \* << >> or the two port bytes
  connects,  \* number of TcpStream::connect calls made
  upstream,  \* "none", "open", "failed", "closed"
  a2b,       \* copy direction client -> upstream: "idle", "run", "done"
  b2a,       \* copy direction upstream -> client: "idle", "run", "done"
  a2bBytes,  \* bytes relayed client -> upstream
  b2aBytes   \* bytes relayed upstream -> client

greetVars == << ver, methods, method >>
authVars == << aver, username, password >>
cmdVars == << cmd, atyp, addr, domain, port >>
connVars == << connects, upstream >>
relayVars == << a2b, b2a, a2bBytes, b2aBytes >>
vars == << pc, result, out, nread, len, ver, methods, method, aver, username,
           password, cmd, atyp, addr, domain, port, connects, upstream,
           a2b, b2a, a2bBytes, b2aBytes >>

Frame(stage, bytes) == [ stage |-> stage, bytes |-> bytes ]

\* Connection::new, before handle() runs
Init ==
  /\ pc = "negotiate"
  /\ result = "running"
  /\ out = << >>
  /\ nread = 0
  /\ len = 0
  /\ ver = << >>
  /\ methods = << >>
  /\ method = << >>
  /\ aver = << >>
  /\ username = << >>
  /\ password = << >>
  /\ cmd = << >>
  /\ atyp = << >>
  /\ addr = << >>
  /\ domain = << >>
  /\ port = << >>
  /\ connects = 0
  /\ upstream = "none"
  /\ a2b = "idle"
  /\ b2a = "idle"
  /\ a2bBytes = 0
  /\ b2aBytes = 0

\* handle() returns r: the task ends and the client stream is dropped
Return(r) ==
  /\ pc' = "closed"
  /\ result' = r

\* the errors handle() returns
ErrEof == "unexpected end of file"
ErrMethod == "Error method"
ErrLens == "Error lens of variable field"
ErrAuth == "Auth failed"
ErrAddrType == "Unsupported address type"
ErrAddrParse == "invalid socket address syntax"
ErrRelay == "relay i/o error"
Panic == "unreachable"

\* mutant: a read that meets end-of-stream answers with a command reply
\* before it returns the error
ReadEof_Replies(k) ==
  /\ nread' = nread + k
  /\ out' = Append(out, Frame("command", ReplyCommandBytes(RepRuleSetNotAllowed)))
  /\ Return(ErrEof)
  /\ UNCHANGED << len, greetVars, authVars, cmdVars, connVars, relayVars >>

\* a read meets end-of-stream after k bytes: the `?` returns the error
ReadEof(k) ==
  /\ nread' = nread + k
  /\ Return(ErrEof)
  /\ UNCHANGED << out, len, greetVars, authVars, cmdVars, connVars, relayVars >>


(* ---------------------------------------------------------------------- *)
(* Greeting                                                               *)
(* ---------------------------------------------------------------------- *)

\* negotiate_method, the version byte:
\*   if self.stream.read_u8().await? != self.version { return Ok(Method::Error) }
NegotiateVersion ==
  /\ pc = "negotiate"
  /\ \/ ReadEof(0)
     \/ \E b \in GreetingVersionBytes :
          /\ nread' = nread + 1
          /\ ver' = << b >>
          /\ IF b # Version
             THEN /\ method' = << MethodError >>
                  /\ pc' = "reply_method"
             ELSE /\ method' = method
                  /\ pc' = "method_len"
          /\ UNCHANGED << result, out, len, methods, authVars, cmdVars,
                          connVars, relayVars >>

\* the stage read_variable was called with, by the place it was called from
StageOf(p) ==
  CASE p \in { "method_len", "method_buf", "zero_method" } -> "Method"
    [] p \in { "user_len", "user_buf", "pass_len", "pass_buf", "zero_auth" } -> "Auth"
    [] p \in { "domain_len", "domain_buf", "zero_command" } -> "Command"

\* mutant: read_variable without its `0 =>` arm
IsZeroLen_Never(n) == FALSE

\* the arm `0 =>` of read_variable
IsZeroLen(n) == n = 0

\* the error read_variable returns for a zero length: reply_method fails
\* by itself and its `?` returns that error; the other stages reach bail!
ZeroLenError(stage) == IF stage = "Method" THEN ErrMethod ELSE ErrLens

\* mutant: read_variable answers a zero length in the Command stage with
\* AddrTypeUnsupported
ZeroLenReply_AddrType(stage) ==
  CASE stage = "Command" -> Frame("command", ReplyCommandBytes(RepAddrTypeUnsupported))
    [] stage = "Method" -> Frame("method", ReplyMethodBytes(MethodError))
    [] stage = "Auth" -> Frame("auth", ReplyAuthBytes(AuthMethodPasswd, FALSE))

\* the reply read_variable writes for a zero length, by stage
ZeroLenReply(stage) ==
  CASE stage = "Command" -> Frame("command", ReplyCommandBytes(RepRuleSetNotAllowed))
    [] stage = "Method" -> Frame("method", ReplyMethodBytes(MethodError))
    [] stage = "Auth" -> Frame("auth", ReplyAuthBytes(AuthMethodPasswd, FALSE))

\* where read_variable stands once it has read a zero length, by stage
ZeroLenPc(stage) ==
  CASE stage = "Method" -> "zero_method"
    [] stage = "Auth" -> "zero_auth"
    [] stage = "Command" -> "zero_command"

\* read_variable, the length byte: read_u8().await?.  A zero length leads
\* to the arm that replies; any other length to read_exact.
ReadVariableLen ==
  /\ pc \in { "method_len", "user_len", "pass_len", "domain_len" }
  /\ \/ ReadEof(0)
     \/ \E n \in 0..MaxLen :
          /\ nread' = nread + 1
          /\ len' = n
          /\ pc' = IF IsZeroLen(n)
                   THEN ZeroLenPc(StageOf(pc))
                   ELSE CASE pc = "method_len" -> "method_buf"
                          [] pc = "user_len" -> "user_buf"
                          [] pc = "pass_len" -> "pass_buf"
                          [] pc = "domain_len" -> "domain_buf"
          /\ UNCHANGED << out, result, greetVars, authVars, cmdVars, connVars,
                          relayVars >>

\* mutant: read_variable writes the reply for a zero length and returns
\* the empty field instead of failing
ReplyZeroLen_NoBail ==
  /\ pc \in { "zero_method", "zero_auth", "zero_command" }
  /\ out' = Append(out, ZeroLenReply(StageOf(pc)))
  /\ pc' = CASE pc = "zero_method" -> "method_buf"
             [] pc = "zero_auth" -> IF username = << >> THEN "user_buf" ELSE "pass_buf"
             [] pc = "zero_command" -> "domain_buf"
  /\ UNCHANGED << result, nread, len, greetVars, authVars, cmdVars, connVars,
                  relayVars >>

\* read_variable, the arm `0 =>`: the reply of the stage is written and
\* the session fails (reply_method(Method::Error) fails by itself, the
\* other two replies are followed by the bail!)
ReplyZeroLen ==
  /\ pc \in { "zero_method", "zero_auth", "zero_command" }
  /\ out' = Append(out, ZeroLenReply(StageOf(pc)))
  /\ Return(ZeroLenError(StageOf(pc)))
  /\ UNCHANGED << nread, len, greetVars, authVars, cmdVars, connVars, relayVars >>

\* the bytes a client may put in a variable-length field
FieldBytes(p) ==
  CASE p = "method_buf" -> MethodBytes
    [] p \in { "user_buf", "pass_buf" } -> CredBytes
    [] p = "domain_buf" -> DomainBytes

\* read_variable, read_exact of the field, and what the caller does with
\* the bytes before its next await
ReadVariableBuf ==
  /\ pc \in { "method_buf", "user_buf", "pass_buf", "domain_buf" }
  /\ \/ \E k \in 0..(len - 1) : ReadEof(k)
     \/ \E b \in SeqsOfLen(FieldBytes(pc), len) :
          /\ nread' = nread + len
          /\ CASE pc = "method_buf" ->
                    /\ methods' = b
                    /\ method' = << SelectMethod(b) >>
                    /\ pc' = "reply_method"
                    /\ UNCHANGED << ver, authVars, cmdVars >>
               [] pc = "user_buf" ->
                    /\ username' = b
                    /\ pc' = "pass_len"
                    /\ UNCHANGED << greetVars, aver, password, cmdVars >>
               [] pc = "pass_buf" ->
                    /\ password' = b
                    /\ pc' = "auth_check"
                    /\ UNCHANGED << greetVars, aver, username, cmdVars >>
               [] pc = "domain_buf" ->
                    /\ domain' = b
                    /\ pc' = "port"
                    /\ UNCHANGED << greetVars, authVars, cmd, atyp, addr, port >>
          /\ UNCHANGED << result, out, len, connVars, relayVars >>

\* mutant: reply_method without its bail!
ReplyMethodFails_Never(m) == FALSE

\* the match of reply_method: Method::Error => bail!
ReplyMethodFails(m) == m = MethodError

\* reply_method(method) as handle() calls it
ReplyMethod ==
  /\ pc = "reply_method"
  /\ out' = Append(out, Frame("method", ReplyMethodBytes(method[1])))
  /\ IF ReplyMethodFails(method[1])
     THEN Return(ErrMethod)
     ELSE /\ pc' = "auth"
          /\ result' = result
  /\ UNCHANGED << nread, len, greetVars, authVars, cmdVars, connVars, relayVars >>

(* ---------------------------------------------------------------------- *)
(* Authentication                                                         *)
(* ---------------------------------------------------------------------- *)

\* auth(method): the dispatch on the negotiated method
Auth ==
  /\ pc = "auth"
  /\ methods' = << >>
  /\ CASE method[1] = MethodNoauth ->
            /\ pc' = "command"
            /\ result' = result
       [] method[1] = MethodPasswd ->
            /\ pc' = "auth_ver"
            /\ result' = result
       [] OTHER -> Return(Panic)
  /\ UNCHANGED << out, nread, len, ver, method, authVars, cmdVars, connVars, relayVars >>

\* auth_passwd: self.stream.read_u8().await?; the byte is dropped
AuthVersion ==
  /\ pc = "auth_ver"
  /\ \/ ReadEof(0)
     \/ \E b \in AverBytes :
          /\ nread' = nread + 1
          /\ aver' = << b >>
          /\ pc' = "user_len"
          /\ UNCHANGED << result, out, len, greetVars, username, password,
                          cmdVars, connVars, relayVars >>

\* auth_passwd after both fields are read: compare, reply, fail or go on
AuthPasswd ==
  /\ pc = "auth_check"
  /\ IF CredentialsMatch(username, password)
     THEN /\ out' = Append(out, Frame("auth", ReplyAuthBytes(AuthMethodPasswd, TRUE)))
          /\ pc' = "command"
          /\ result' = result
     ELSE /\ out' = Append(out, Frame("auth", ReplyAuthBytes(AuthMethodPasswd, FALSE)))
          /\ Return(ErrAuth)
  /\ UNCHANGED << nread, len, greetVars, authVars, cmdVars, connVars, relayVars >>


(* ---------------------------------------------------------------------- *)
(* Command                                                                *)
(* ---------------------------------------------------------------------- *)

\* mutant: handle_command without its version check
VersionMismatch_Never(b) == FALSE

\* handle_command: `if buf[0] != self.version`
VersionMismatch(b) == b # Version

\* handle_command: read_exact of the 3-byte frame, then the two checks;
\* each leads to the call that writes its reply.
HandleCommand ==
  /\ pc = "command"
  /\ \/ \E k \in 0..2 : ReadEof(k)
     \/ \E v \in VersionBytes, c \in CommandBytes, r \in ReservedBytes :
          /\ nread' = nread + 3
          /\ cmd' = << v, c, r >>
          /\ pc' = IF VersionMismatch(v) THEN "reply_version"
                   ELSE IF CommandFrom(c) = CommandConnect THEN "addr_type"
                   ELSE "reply_unsupported"
          /\ UNCHANGED << out, result, len, greetVars, authVars, atyp, addr, domain, port,
                          connVars, relayVars >>

\* number of address bytes read_addr reads for a type
AddrLen(t) == IF t = AddrTypeV4 THEN 4 ELSE 16

\* read_addr: the address-type byte and the dispatch on it
ReadAddrType ==
  /\ pc = "addr_type"
  /\ \/ ReadEof(0)
     \/ \E t \in AddrTypeBytes :
          /\ nread' = nread + 1
          /\ atyp' = << t >>
          /\ CASE AddrTypeFrom(t) \in { AddrTypeV4, AddrTypeV6 } ->
                    /\ pc' = "addr_bytes"
                    /\ len' = AddrLen(AddrTypeFrom(t))
                    /\ UNCHANGED << out, result >>
               [] AddrTypeFrom(t) = AddrTypeDomain ->
                    /\ pc' = "domain_len"
                    /\ UNCHANGED << out, result, len >>
               [] OTHER ->
                    /\ pc' = "reply_addr_type"
                    /\ UNCHANGED << out, result, len >>
          /\ UNCHANGED << greetVars, authVars, cmd, addr, domain, port,
                          connVars, relayVars >>

\* read_addr: read_exact of the 4 or 16 address bytes
ReadAddrBytes ==
  /\ pc = "addr_bytes"
  /\ \/ \E k \in 0..(len - 1) : ReadEof(k)
     \/ \E a \in (IF len = 4 THEN V4Addrs ELSE V6Addrs) :
          /\ nread' = nread + len
          /\ addr' = a
          /\ pc' = "port"
          /\ UNCHANGED << result, out, len, greetVars, authVars, cmd, atyp,
                          domain, port, connVars, relayVars >>

\* read_addr: read_u16 of the port; the Domain arm then parses its text
ReadPort ==
  /\ pc = "port"
  /\ \/ \E k \in 0..1 : ReadEof(k)
     \/ \E p \in PortBytes :
          /\ nread' = nread + 2
          /\ port' = p
          /\ IF AddrTypeFrom(atyp[1]) = AddrTypeDomain
                /\ ~ ParsesAsSocketAddr(DomainText(domain, ReadU16(p)))
             THEN Return(ErrAddrParse)
             ELSE /\ pc' = "connect"
                  /\ result' = result
          /\ UNCHANGED << out, len, greetVars, authVars, cmd, atyp, addr,
                          domain, connVars, relayVars >>

\* mutant: handle_connect_command replies Succeeded whatever the outcome
ConnectReply_Succeeded(ok) == RepSucceeded

\* the reply handle_connect_command writes for the outcome of connect
ConnectReply(ok) == IF ok THEN RepSucceeded ELSE RepConnectionRefused

\* mutant: the Ok arm starts the copy without writing the Succeeded reply
Connect_NoReply ==
  /\ pc = "connect"
  /\ connects' = connects + 1
  /\ \E ok \in BOOLEAN :
       IF ok
       THEN /\ upstream' = "open"
            /\ pc' = "relay"
            /\ a2b' = "run"
            /\ b2a' = "run"
       ELSE /\ upstream' = "failed"
            /\ pc' = "reply_refused"
            /\ UNCHANGED << a2b, b2a >>
  /\ UNCHANGED << out, result, nread, len, greetVars, authVars, cmdVars,
                  a2bBytes, b2aBytes >>

\* handle_connect_command: TcpStream::connect(addr).await.  Either arm
\* goes on to write its reply.
Connect ==
  /\ pc = "connect"
  /\ connects' = connects + 1
  /\ \E ok \in BOOLEAN :
       IF ok
       THEN /\ upstream' = "open"
            /\ pc' = "connected"
       ELSE /\ upstream' = "failed"
            /\ pc' = "reply_refused"
  /\ UNCHANGED << out, result, nread, len, greetVars, authVars, cmdVars,
                  relayVars >>

\* the status of the negative reply handle() is about to write
NegativeReplyOf(p) ==
  CASE p = "reply_version" -> RepRuleSetNotAllowed
    [] p = "reply_unsupported" -> RepCommandUnsupported
    [] p = "reply_addr_type" -> RepAddrTypeUnsupported
    [] p = "reply_refused" -> ConnectReply(FALSE)

\* what handle() returns once that reply is written: handle_command and
\* handle_connect_command return what reply_command returns, read_addr
\* goes on to its bail!
NegativeReturnOf(p) == IF p = "reply_addr_type" THEN ErrAddrType ELSE "Ok"

\* reply_command(rep).await for a negative reply, and the return
ReplyNegative ==
  /\ pc \in { "reply_version", "reply_unsupported", "reply_addr_type",
              "reply_refused" }
  /\ out' = Append(out, Frame("command", ReplyCommandBytes(NegativeReplyOf(pc))))
  /\ Return(NegativeReturnOf(pc))
  /\ UNCHANGED << nread, len, greetVars, authVars, cmdVars, connVars, relayVars >>

\* handle_connect_command, the Ok arm: reply_command(Succeeded).await?
\* and then copy_bidirectional starts
ReplySucceeded ==
  /\ pc = "connected"
  /\ out' = Append(out, Frame("command", ReplyCommandBytes(ConnectReply(TRUE))))
  /\ pc' = "relay"
  /\ a2b' = "run"
  /\ b2a' = "run"
  /\ UNCHANGED << result, nread, len, greetVars, authVars, cmdVars, connVars,
                  a2bBytes, b2aBytes >>

(* ---------------------------------------------------------------------- *)
(* Relay: copy_bidirectional(&mut self.stream, &mut connection)           *)
(* ---------------------------------------------------------------------- *)

\* copy_bidirectional is running: it is called after the Succeeded reply
Relaying == pc = "relay"

\* mutant: copy_bidirectional returns when one direction is done
BothDone_Either == a2b = "done" \/ b2a = "done"

\* copy_bidirectional returns Ok once both directions are done
BothDone == a2b = "done" /\ b2a = "done"

\* one byte read from the client is written to the upstream
RelayClientToUpstream ==
  /\ Relaying
  /\ a2b = "run"
  /\ a2bBytes < MaxRelay
  /\ a2bBytes' = a2bBytes + 1
  /\ UNCHANGED << pc, result, out, nread, len, greetVars, authVars, cmdVars,
                  connVars, a2b, b2a, b2aBytes >>

\* one byte read from the upstream is written to the client
RelayUpstreamToClient ==
  /\ Relaying
  /\ b2a = "run"
  /\ b2aBytes < MaxRelay
  /\ b2aBytes' = b2aBytes + 1
  /\ UNCHANGED << pc, result, out, nread, len, greetVars, authVars, cmdVars,
                  connVars, a2b, b2a, a2bBytes >>

\* the client ends its stream: that direction shuts the upstream's write
\* half down and is done; the other direction goes on
RelayClientEof ==
  /\ Relaying
  /\ a2b = "run"
  /\ a2b' = "done"
  /\ UNCHANGED << pc, result, out, nread, len, greetVars, authVars, cmdVars,
                  connVars, b2a, a2bBytes, b2aBytes >>

\* the upstream ends its stream
RelayUpstreamEof ==
  /\ Relaying
  /\ b2a = "run"
  /\ b2a' = "done"
  /\ UNCHANGED << pc, result, out, nread, len, greetVars, authVars, cmdVars,
                  connVars, a2b, a2bBytes, b2aBytes >>

\* an I/O error in either direction: copy_bidirectional returns it and the
\* `?` of handle_connect_command returns it from handle()
RelayError ==
  /\ Relaying
  /\ upstream' = "closed"
  /\ Return(ErrRelay)
  /\ UNCHANGED << out, nread, len, greetVars, authVars, cmdVars, connects,
                  relayVars >>

\* both directions are done: copy_bidirectional returns Ok and so does handle()
RelayDone ==
  /\ Relaying
  /\ BothDone
  /\ upstream' = "closed"
  /\ Return("Ok")
  /\ UNCHANGED << out, nread, len, greetVars, authVars, cmdVars, connects,
                  relayVars >>

(* ---------------------------------------------------------------------- *)
(* Specification                                                          *)
(* ---------------------------------------------------------------------- *)

Next ==
  \/ NegotiateVersion
  \/ ReadVariableLen
  \/ ReplyZeroLen
  \/ ReadVariableBuf
  \/ ReplyMethod
  \/ Auth
  \/ AuthVersion
  \/ AuthPasswd
  \/ HandleCommand
  \/ ReadAddrType
  \/ ReadAddrBytes
  \/ ReadPort
  \/ Connect
  \/ ReplySucceeded
  \/ ReplyNegative
  \/ RelayClientToUpstream
  \/ RelayUpstreamToClient
  \/ RelayClientEof
  \/ RelayUpstreamEof
  \/ RelayError
  \/ RelayDone

Spec == Init /\ [][Next]_vars


(* ---------------------------------------------------------------------- *)
(* Properties                                                             *)
(* ---------------------------------------------------------------------- *)

FramesOf(stage) == SelectSeq(out, LAMBDA f : f.stage = stage)
MethodFrames == FramesOf("method")
AuthFrames == FramesOf("auth")
CommandFrames == FramesOf("command")

Failed == result \notin { "running", "Ok" }

\* the session has gone past the auth stage
InCommandStage ==
  \/ pc \in { "command", "addr_type", "addr_bytes", "port", "domain_len",
              "domain_buf", "zero_command", "connect", "connected", "relay",
              "reply_version", "reply_unsupported", "reply_addr_type",
              "reply_refused" }
  \/ cmd # << >>

\* C1: a version-5 method list that contains 0x02 selects Passwd and is
\* answered (05, 02), wherever 0x00 and 0x02 stand in the list; NoAuth and
\* the reply (05, 00) occur only for a list with 0x00 and without 0x02.
C1_PasswdPreferred ==
  methods # << >> =>
    /\ 2 \in Range(methods) =>
         /\ method = << 2 >>
         /\ pc # "reply_method" => out = << Frame("method", << 5, 2 >>) >>
    /\ (method = << 0 >> \/ Frame("method", << 5, 0 >>) \in Range(out)) =>
         /\ 0 \in Range(methods)
         /\ 2 \notin Range(methods)
         /\ pc # "reply_method" => out = << Frame("method", << 5, 0 >>) >>

\* NoAuth is offered first, Passwd second, and (05, 02) has been written
C1_Witness ==
  /\ methods = << 0, 2 >>
  /\ pc = "auth"
  /\ out = << Frame("method", << 5, 2 >>) >>

\* the greeting yields no acceptable method
NoAcceptableMethod ==
  \/ ver # << >> /\ ver[1] # 5
  \/ ver = << 5 >> /\ nread = 2 /\ len = 0
  \/ methods # << >> /\ 0 \notin Range(methods) /\ 2 \notin Range(methods)

\* the bytes of the greeting the server has read
GreetingBytesRead ==
  IF ver # << 5 >> THEN 1 ELSE 2 + Len(methods)

\* C2: when the greeting yields no acceptable method (version not 5, count
\* zero, or neither 0x00 nor 0x02 offered) the server writes (05, FF) once,
\* nothing else, reads nothing more and the session ends.
C2_NoAcceptableMethod ==
  NoAcceptableMethod =>
    /\ pc \in { "reply_method", "zero_method", "closed" }
    /\ pc # "closed" => out = << >>
    /\ pc = "closed" => out = << Frame("method", << 5, 255 >>) >> /\ Failed
    /\ nread = GreetingBytesRead
    /\ aver = << >>
    /\ cmd = << >>
    /\ connects = 0

\* a version-5 greeting with a zero method count has been answered
C2_Witness ==
  /\ ver = << 5 >>
  /\ nread = 2
  /\ len = 0
  /\ pc = "closed"
  /\ out = << Frame("method", << 5, 255 >>) >>

\* both credential fields were read, are not the configured pair, and the
\* check of auth_passwd has run
WrongPairChecked ==
  /\ username # << >>
  /\ password # << >>
  /\ << username, password >> # << << 49, 50, 51 >>, << 49, 50, 51 >> >>
  /\ pc # "auth_check"

\* C3: a non-empty pair other than the configured one is answered with
\* status 0xFF and the session ends without a Command frame being read.
\* reply_auth writes 0x01 as the failure status, so this does not hold.
C3_Original ==
  WrongPairChecked =>
    /\ Len(AuthFrames) = 1
    /\ AuthFrames[1].bytes[2] = 255
    /\ pc = "closed"
    /\ cmd = << >>

\* the configured pair was read and the check of auth_passwd has run
RightPairChecked ==
  /\ username = << 49, 50, 51 >>
  /\ password = << 49, 50, 51 >>
  /\ pc # "auth_check"

\* C4: the configured pair is answered with status 0x00 whatever the
\* auth-version byte was, and the session goes on to the Command frame;
\* after Passwd was selected the Command stage is entered only with the
\* configured pair.
C4_RightPairAccepted ==
  /\ RightPairChecked =>
       /\ Len(AuthFrames) = 1
       /\ AuthFrames[1].bytes[2] = 0
       /\ out[2] = AuthFrames[1]
       /\ InCommandStage \/ (pc = "closed" /\ result = ErrEof)
  /\ (method = << 2 >> /\ InCommandStage) =>
       /\ username = << 49, 50, 51 >>
       /\ password = << 49, 50, 51 >>
       /\ Len(AuthFrames) = 1
       /\ AuthFrames[1].bytes[2] = 0

\* the client sent auth version 5, the configured pair, and the Command
\* frame has been read
C4_Witness ==
  /\ aver = << 5 >>
  /\ RightPairChecked
  /\ pc = "addr_type"
  /\ cmd # << >>

\* C5: the first byte of every auth reply, success or failure, is the
\* auth-version byte the client sent, whatever its value.  reply_auth
\* writes AuthMethod::Passwd = 0x01 there, so this does not hold.
C5_Original ==
  \A i \in 1..Len(AuthFrames) : AuthFrames[i].bytes[1] = aver[1]

\* the username length byte was read and is zero
ZeroUsername == aver # << >> /\ username = << >> /\ len = 0

\* the password length byte was read and is zero
ZeroPassword ==
  /\ username # << >>
  /\ password = << >>
  /\ len = 0
  /\ cmd = << >>
  /\ atyp = << >>

\* C6: a zero-length username or password is never compared: one
\* auth-failure reply is written when the zero length byte is read, the
\* rest of the frame is not read and the session ends before Command.
C6_ZeroLengthCredential ==
  (ZeroUsername \/ ZeroPassword) =>
    /\ pc \in { "zero_auth", "closed" }
    /\ pc = "zero_auth" => Len(out) = 1 /\ AuthFrames = << >>
    /\ pc = "closed" =>
         /\ Failed
         /\ Len(AuthFrames) = 1
         /\ AuthFrames[1].bytes[2] # 0
         /\ Len(out) = 2
         /\ out[2] = AuthFrames[1]
    /\ password = << >>
    /\ cmd = << >>
    /\ connects = 0

\* the username is the configured one and the password length is zero
C6_Witness ==
  /\ username = << 49, 50, 51 >>
  /\ ZeroPassword
  /\ pc = "closed"
  /\ Len(AuthFrames) = 1

\* C7: a Command frame whose version is not 5 is answered with exactly
\* 05 02 00 01 00 00 00 00 00 00; no address byte is read, no outbound
\* connection is attempted and the session closes.
C7_CommandVersionMismatch ==
  (cmd # << >> /\ cmd[1] # 5) =>
    /\ pc \in { "reply_version", "closed" }
    /\ pc = "reply_version" => CommandFrames = << >>
    /\ pc = "closed" =>
         /\ CommandFrames =
              << Frame("command", << 5, 2, 0, 1, 0, 0, 0, 0, 0, 0 >>) >>
         /\ out[Len(out)].stage = "command"
    /\ atyp = << >>
    /\ addr = << >>
    /\ domain = << >>
    /\ port = << >>
    /\ connects = 0
    /\ upstream = "none"

\* a frame of version 4 that asks for BIND with a non-zero reserved byte
C7_Witness ==
  /\ cmd = << 4, 2, 1 >>
  /\ pc = "closed"
  /\ Len(CommandFrames) = 1

\* C8: a version-5 Command frame whose command is not 0x01 is answered
\* with status 0x07; no address byte is read, no outbound connection is
\* attempted and the session closes without Relay.
C8_CommandUnsupported ==
  (cmd # << >> /\ cmd[1] = 5 /\ cmd[2] # 1) =>
    /\ pc \in { "reply_unsupported", "closed" }
    /\ pc = "reply_unsupported" => CommandFrames = << >>
    /\ pc = "closed" =>
         /\ Len(CommandFrames) = 1
         /\ CommandFrames[1].bytes[2] = 7
         /\ out[Len(out)].stage = "command"
    /\ atyp = << >>
    /\ addr = << >>
    /\ domain = << >>
    /\ port = << >>
    /\ connects = 0
    /\ upstream = "none"
    /\ a2b = "idle"
    /\ b2a = "idle"

\* a BIND request has been answered
C8_Witness ==
  /\ cmd = << 5, 2, 0 >>
  /\ pc = "closed"
  /\ Len(CommandFrames) = 1

\* C9: a Connect request whose address type is none of 0x01, 0x03, 0x04 is
\* answered with status 0x08 and with no other command reply; nothing is
\* read after the type byte, no outbound connection is attempted and the
\* session fails.
C9_AddrTypeUnsupported ==
  (atyp # << >> /\ atyp[1] \notin { 1, 3, 4 }) =>
    /\ cmd[1] = 5
    /\ cmd[2] = 1
    /\ pc \in { "reply_addr_type", "closed" }
    /\ pc = "reply_addr_type" => CommandFrames = << >>
    /\ pc = "closed" =>
         /\ Failed
         /\ Len(CommandFrames) = 1
         /\ CommandFrames[1].bytes[2] = 8
         /\ out[Len(out)].stage = "command"
    /\ addr = << >>
    /\ domain = << >>
    /\ port = << >>
    /\ connects = 0
    /\ upstream = "none"

\* address type 5 has been answered
C9_Witness ==
  /\ atyp = << 5 >>
  /\ pc = "closed"
  /\ Len(CommandFrames) = 1

\* a complete V4 or V6 destination was read and the connect failed
ConnectFailed ==
  /\ atyp # << >>
  /\ atyp[1] \in { 1, 4 }
  /\ port # << >>
  /\ upstream = "failed"

\* C10: a Connect request with a complete IPv4 or IPv6 destination whose
\* outbound connection cannot be established gets exactly one command
\* reply, with status 0x05, never a Succeeded reply, never Relay, and the
\* session closes.
C10_ConnectionRefused ==
  ConnectFailed =>
    /\ pc \in { "reply_refused", "closed" }
    /\ pc = "reply_refused" => CommandFrames = << >>
    /\ pc = "closed" =>
         /\ Len(CommandFrames) = 1
         /\ CommandFrames[1].bytes[2] = 5
         /\ out[Len(out)].stage = "command"
    /\ connects = 1
    /\ a2b = "idle"
    /\ b2a = "idle"
    /\ a2bBytes = 0
    /\ b2aBytes = 0

\* an IPv6 destination could not be connected to
C10_Witness ==
  /\ atyp = << 4 >>
  /\ Len(addr) = 16
  /\ ConnectFailed
  /\ pc = "closed"


\* a Connect request with a non-empty domain name and a complete port
DomainRequestRead ==
  /\ atyp = << 3 >>
  /\ domain # << >>
  /\ port # << >>

\* C11: a Connect request with address type Domain, a non-empty name and a
\* complete port leads to an outbound connection attempt, and the session
\* does not end before one command reply, Succeeded or ConnectionRefused,
\* has been written.
C11_DomainAnswered ==
  DomainRequestRead =>
    /\ pc \in { "connect", "connected", "reply_refused", "relay", "closed" }
    /\ pc = "closed" =>
         /\ connects = 1
         /\ Len(CommandFrames) = 1
         /\ CommandFrames[1].bytes[2] \in { 0, 5 }

\* C12: every command reply written is the 10 bytes 05, status, 00, 01 and
\* six zero bytes, with a status among 0x00, 0x02, 0x05, 0x07, 0x08.
C12_CommandReplyShape ==
  \A i \in 1..Len(CommandFrames) :
    LET b == CommandFrames[i].bytes IN
      /\ Len(b) = 10
      /\ b[1] = 5
      /\ b[2] \in { 0, 2, 5, 7, 8 }
      /\ b[3] = 0
      /\ b[4] = 1
      /\ \A j \in 5..10 : b[j] = 0

\* a Succeeded reply has been written
C12_Witness ==
  /\ pc = "relay"
  /\ CommandFrames = << Frame("command", << 5, 0, 0, 1, 0, 0, 0, 0, 0, 0 >>) >>

\* the Succeeded reply is among the frames written
SucceededWritten ==
  \E i \in 1..Len(out) : out[i].stage = "command" /\ out[i].bytes[2] = 0

\* the outbound connection was established
Established == upstream \in { "open", "closed" }

\* C13: the Succeeded reply is written only for an established outbound
\* connection and for every established one before anything else happens;
\* nothing is relayed in either direction before it is written, and it is
\* the last protocol frame the client gets.
C13_SucceededBeforeRelay ==
  /\ SucceededWritten => Established
  /\ (Established /\ pc # "connected") => SucceededWritten
  /\ (a2bBytes > 0 \/ b2aBytes > 0 \/ a2b # "idle" \/ b2a # "idle") => SucceededWritten
  /\ SucceededWritten =>
       /\ Len(CommandFrames) = 1
       /\ out[Len(out)] = Frame("command", << 5, 0, 0, 1, 0, 0, 0, 0, 0, 0 >>)

\* bytes have gone both ways after the Succeeded reply
C13_Witness ==
  /\ pc = "relay"
  /\ a2bBytes > 0
  /\ b2aBytes > 0
  /\ SucceededWritten


\* a command reply with a status other than Succeeded is among the frames
NegativeReplyWritten ==
  \E i \in 1..Len(out) : out[i].stage = "command" /\ out[i].bytes[2] # 0

\* C14: a session in which a negative command reply was written ends with
\* an error from handle(), and handle() returns success only for a session
\* that entered Relay.
C14_NegativeReplyFails ==
  /\ (pc = "closed" /\ NegativeReplyWritten) => Failed
  /\ result = "Ok" => (a2b # "idle" /\ b2a # "idle")

\* C15 as written: once either endpoint has ended its stream, nothing more
\* is copied in either direction.
C15_Original ==
  [][ (pc = "relay" /\ (a2b = "done" \/ b2a = "done")) =>
        (a2bBytes' = a2bBytes /\ b2aBytes' = b2aBytes) ]_vars

\* C15 amended: a direction whose source ended its stream copies nothing
\* more and stays ended, while the other direction may go on; the relay is
\* left only for Closed, with the upstream released, and only when both
\* directions have ended (success) or a copy hit an error.
C15_HalfClose ==
  [][ /\ a2b = "done" => (a2b' = "done" /\ a2bBytes' = a2bBytes)
      /\ b2a = "done" => (b2a' = "done" /\ b2aBytes' = b2aBytes)
      /\ (pc = "relay" /\ pc' # "relay") =>
           /\ pc' = "closed"
           /\ upstream' = "closed"
           /\ \/ a2b = "done" /\ b2a = "done" /\ result' = "Ok"
              \/ result' = "relay i/o error" ]_vars

\* both endpoints ended their streams after bytes went to the client, and
\* the session is closed
C15_Witness ==
  /\ pc = "closed"
  /\ result = "Ok"
  /\ a2b = "done"
  /\ b2a = "done"
  /\ b2aBytes > 0
  /\ upstream = "closed"

\* C16: when a handshake read meets end-of-stream, the session ends at once
\* with nothing more written to the client and no outbound connection
\* attempted.
C16_SilentOnEof ==
  [][ (result = "running" /\ result' = "unexpected end of file") =>
        /\ pc' = "closed"
        /\ out' = out
        /\ connects' = 0
        /\ connects = 0
        /\ upstream' = "none"
        /\ a2b' = "idle"
        /\ b2a' = "idle" ]_vars

\* the client went away in the middle of an IPv4 address
C16_Witness ==
  /\ result = "unexpected end of file"
  /\ pc = "closed"
  /\ atyp = << 1 >>
  /\ addr = << >>
  /\ Len(out) = 1
  /\ connects = 0


\* the handshake so far entitles the client to a command: NoAuth was
\* selected and answered, or Passwd was selected and answered, the
\* configured pair was sent and the success reply written
Authorised ==
  \/ /\ method = << 0 >>
     /\ out[1] = Frame("method", << 5, 0 >>)
     /\ AuthFrames = << >>
  \/ /\ method = << 2 >>
     /\ Len(out) >= 2
     /\ out[1] = Frame("method", << 5, 2 >>)
     /\ out[2] = Frame("auth", << 1, 0 >>)
     /\ username = << 49, 50, 51 >>
     /\ password = << 49, 50, 51 >>

\* a (05, FF) method reply or an auth reply with a failure status is
\* among the frames
Rejected ==
  \/ Frame("method", << 5, 255 >>) \in Range(out)
  \/ \E i \in 1..Len(out) : out[i].stage = "auth" /\ out[i].bytes[2] # 0

\* C17: the Command stage, an outbound connection attempt and Relay are
\* reached only after NoAuth was selected or after Passwd was selected and
\* the credential check succeeded with a success reply; never after a
\* (05, FF) method reply or an auth-failure reply.
C17_CommandOnlyWhenAuthorised ==
  /\ (InCommandStage \/ connects > 0 \/ upstream # "none" \/ a2b # "idle") =>
       Authorised
  /\ Rejected =>
       /\ pc = "closed"
       /\ ~ InCommandStage
       /\ connects = 0
       /\ upstream = "none"

\* a session that authenticated with Passwd is relaying
C17_Witness ==
  /\ method = << 2 >>
  /\ connects = 1
  /\ pc = "relay"
  /\ Authorised

\* the stages of the frames written, in order
StageSeq == [ i \in 1..Len(out) |-> out[i].stage ]

\* C18: at most one method reply, one auth reply and one command reply
\* are written, in that order, the zero-length paths of read_variable
\* included.
C18_OneReplyPerStage ==
  /\ Len(MethodFrames) <= 1
  /\ Len(AuthFrames) <= 1
  /\ Len(CommandFrames) <= 1
  /\ StageSeq \in { << >>,
                    << "method" >>,
                    << "method", "auth" >>,
                    << "method", "command" >>,
                    << "method", "auth", "command" >> }

\* after Passwd authentication a zero-length domain name was answered once
C18_Witness ==
  /\ atyp = << 3 >>
  /\ len = 0
  /\ pc = "closed"
  /\ StageSeq = << "method", "auth", "command" >>

\* the length byte of a domain name was read and is zero
ZeroDomain ==
  /\ atyp = << 3 >>
  /\ domain = << >>
  /\ len = 0

\* C19: a Domain request whose name length is zero gets one command reply,
\* with status 0x02; the port is not read, no outbound connection is
\* attempted and the session fails.
C19_ZeroLengthDomain ==
  ZeroDomain =>
    /\ pc \in { "zero_command", "closed" }
    /\ pc = "zero_command" => CommandFrames = << >>
    /\ pc = "closed" =>
         /\ Failed
         /\ CommandFrames =
              << Frame("command", << 5, 2, 0, 1, 0, 0, 0, 0, 0, 0 >>) >>
         /\ out[Len(out)].stage = "command"
    /\ port = << >>
    /\ connects = 0
    /\ upstream = "none"

\* without authentication a zero-length domain name was rejected
C19_Witness ==
  /\ method = << 0 >>
  /\ ZeroDomain
  /\ pc = "closed"
  /\ Len(CommandFrames) = 1

\* C20: auth() runs only with Noauth or Passwd, so its unreachable!() arm
\* is never executed.
C20_UnreachableNotReached ==
  /\ result # "unreachable"
  /\ pc = "auth" => method \in { << 0 >>, << 2 >> }
  /\ (method = << 255 >> /\ pc # "reply_method") =>
       (pc = "closed" /\ result = "Error method")

\* a list with no acceptable method was answered and reply_method failed
\* the session
C20_Witness ==
  /\ methods # << >>
  /\ method = << 255 >>
  /\ pc = "closed"
  /\ result = "Error method"

====
